---- MODULE Spec2Model ----
(***************************************************************************)
(* Company export service (api.py): alias resolution, two-stage lookup,    *)
(* export files and their download route.                                  *)
(*                                                                         *)
(* A Python str is a sequence of one-character strings.                    *)
(***************************************************************************)
EXTENDS Integers, Sequences, FiniteSets, TLC

VARIABLES
    fnArg,      \* argument handed to the pure function under check
    fnOrigin,   \* the SHORTCUTS key fnArg was derived from, or NoVal
    fnRet,      \* the function's result, NoVal before the call
    fnRet2      \* resolve_target applied to fnRet, NoVal before the call

pureVars == <<fnArg, fnOrigin, fnRet, fnRet2>>

\* a value no str equals (Python None)
NoVal == <<"None">>

----------------------------------------------------------------------------
(* Characters *)

UpperLetters ==
    <<"A", "B", "C", "D", "E", "F", "G", "H", "I", "J", "K", "L", "M",
      "N", "O", "P", "Q", "R", "S", "T", "U", "V", "W", "X", "Y", "Z", "É">>

LowerLetters ==
    <<"a", "b", "c", "d", "e", "f", "g", "h", "i", "j", "k", "l", "m",
      "n", "o", "p", "q", "r", "s", "t", "u", "v", "w", "x", "y", "z", "é">>

NumLetters == Len(UpperLetters)

\* the ASCII letters are the first 26 of each row
AsciiLetters ==
    {UpperLetters[i] : i \in 1..26} \cup {LowerLetters[i] : i \in 1..26}

Digits == {"0", "1", "2", "3", "4", "5", "6", "7", "8", "9"}

\* str.strip() with no argument strips whitespace
WhiteSpace == {" ", "\t", "\n"}

\* the complement of the class [^A-Za-z0-9._-]
SafeChars == AsciiLetters \cup Digits \cup {".", "_", "-"}

LowerChar(ch) ==
    IF \E i \in 1..NumLetters : UpperLetters[i] = ch
    THEN LowerLetters[CHOOSE i \in 1..NumLetters : UpperLetters[i] = ch]
    ELSE ch

UpperChar(ch) ==
    IF \E i \in 1..NumLetters : LowerLetters[i] = ch
    THEN UpperLetters[CHOOSE i \in 1..NumLetters : LowerLetters[i] = ch]
    ELSE ch

\* str.lower()
Lower(s) == [i \in 1..Len(s) |-> LowerChar(s[i])]

\* the positions of s that hold a character outside chars
KeptAt(s, chars) == {i \in 1..Len(s) : s[i] \notin chars}

LStrip(s, chars) ==
    LET kept == KeptAt(s, chars)
    IN  IF kept = {} THEN <<>>
        ELSE SubSeq(s, CHOOSE i \in kept : \A j \in kept : i <= j, Len(s))

RStrip(s, chars) ==
    LET kept == KeptAt(s, chars)
    IN  IF kept = {} THEN <<>>
        ELSE SubSeq(s, 1, CHOOSE i \in kept : \A j \in kept : j <= i)

\* str.strip(chars)
Strip(s, chars) == RStrip(LStrip(s, chars), chars)

\* s[:n]
Take(s, n) == SubSeq(s, 1, IF Len(s) < n THEN Len(s) ELSE n)

----------------------------------------------------------------------------
(* The alias table *)

Continental ==
    <<"C", "o", "n", "t", "i", "n", "e", "n", "t", "a", "l", " ", "A", "G", " ", "(", "G", "e", "r", "m", "a", "n", "y", ",", " ", "F", "e", "d", ".", " ", "R", "e", "p", ".", ")", " ", "(", "N", "B", "B", ":", " ", "C", "T", "T", "A", " ", "Y", ")">>

Airbus ==
    <<"A", "i", "r", "b", "u", "s", " ", "S", "E", " ", "(", "N", "B", "B", ":", " ", "E", "A", "D", "S", " ", "Y", ")">>

Boeing ==
    <<"B", "o", "e", "i", "n", "g", " ", "C", "o", ".", " ", "(", "T", "h", "e", ")", " ", "(", "N", "Y", "S", ":", " ", "B", "A", ")">>

Denso ==
    <<"D", "e", "n", "s", "o", " ", "C", "o", "r", "p", " ", "(", "N", "B", "B", ":", " ", "D", "N", "Z", "O", " ", "Y", ")">>

Magna ==
    <<"M", "a", "g", "n", "a", " ", "I", "n", "t", "e", "r", "n", "a", "t", "i", "o", "n", "a", "l", " ", "I", "n", "c", " ", "(", "N", "Y", "S", ":", " ", "M", "G", "A", ")">>

Infineon ==
    <<"I", "n", "f", "i", "n", "e", "o", "n", " ", "T", "e", "c", "h", "n", "o", "l", "o", "g", "i", "e", "s", " ", "A", "G", " ", "(", "N", "B", "B", ":", " ", "I", "F", "N", "N", " ", "Y", ")">>

STMicro ==
    <<"S", "T", "M", "i", "c", "r", "o", "e", "l", "e", "c", "t", "r", "o", "n", "i", "c", "s", " ", "N", "V", " ", "(", "N", "Y", "S", ":", " ", "S", "T", "M", ")">>

SHORTCUTS ==
    <<"c">> :> Continental @@
    <<"a">> :> Airbus @@
    <<"b">> :> Boeing @@
    <<"d">> :> Denso @@
    <<"m">> :> Magna @@
    <<"i">> :> Infineon @@
    <<"s">> :> STMicro @@
    <<"c", "o", "n", "t", "i">> :> Continental @@
    <<"c", "o", "n", "t", "i", "n", "e", "n", "t", "a", "l">> :> Continental @@
    <<"a", "i", "r", "b", "u", "s">> :> Airbus @@
    <<"e", "a", "d", "s">> :> Airbus @@
    <<"b", "o", "e", "i", "n", "g">> :> Boeing @@
    <<"b", "a">> :> Boeing @@
    <<"d", "e", "n", "s", "o">> :> Denso @@
    <<"d", "n", "z", "o">> :> Denso @@
    <<"m", "a", "g", "n", "a">> :> Magna @@
    <<"m", "g", "a">> :> Magna @@
    <<"i", "n", "f", "i", "n", "e", "o", "n">> :> Infineon @@
    <<"i", "f", "n", "n">> :> Infineon @@
    <<"s", "t", "m", "i", "c", "r", "o">> :> STMicro @@
    <<"s", "t", "m">> :> STMicro

Keys == DOMAIN SHORTCUTS

CanonicalNames == {SHORTCUTS[k] : k \in Keys}

----------------------------------------------------------------------------
(* resolve_target *)

resolve_target_nolower(input_value) ==
    LET key == Strip(input_value, WhiteSpace)
    IN  IF key \in Keys THEN SHORTCUTS[key] ELSE Strip(input_value, WhiteSpace)

resolve_target_rawdefault(input_value) ==
    LET key == Lower(Strip(input_value, WhiteSpace))
    IN  IF key \in Keys THEN SHORTCUTS[key] ELSE input_value

resolve_target(input_value) ==
    LET key == Lower(Strip(input_value, WhiteSpace))
    IN  IF key \in Keys THEN SHORTCUTS[key] ELSE Strip(input_value, WhiteSpace)

----------------------------------------------------------------------------
(* safe_filename *)

\* the slice [:80]
MaxNameLen == 80

\* re.sub(r"[^A-Za-z0-9._-]+", "_", s): each maximal run of unsafe
\* characters becomes one "_".  A safe character stays, the first character
\* of a run becomes "_", the rest of the run goes.
ReSub(s) ==
    LET marked == [i \in 1..Len(s) |->
                      IF s[i] \in SafeChars THEN s[i]
                      ELSE IF i = 1 \/ s[i - 1] \in SafeChars THEN "_"
                      ELSE ""]
        Stays(ch) == ch # ""
    IN  SelectSeq(marked, Stays)

safe_filename_nocap(s) == Strip(ReSub(s), {"_"})

safe_filename(s) == Take(Strip(ReSub(s), {"_"}), MaxNameLen)

----------------------------------------------------------------------------
(* The service state *)

VARIABLES
    db,          \* the companies collection, in natural order (read-only)
    workers,     \* the threads that run the synchronous handlers
    pool,        \* the identifiers uuid.uuid4() has not yet returned
    queries,     \* the (export, c) parameter pairs clients submit
    pc,          \* per worker: where its export_at_root call stands
    req,         \* per worker: the locals of its export_at_root call
    files,       \* EXPORT_DIR: file name -> content
    ingestLogs,  \* the ingest_logs collection
    last,        \* the response most recently sent
    exported,    \* history: the link and JSON text of every export answered 200
    opened       \* history: every file name an export has opened for writing

svcVars ==
    <<db, workers, pool, queries, pc, req, files, ingestLogs, last,
      exported, opened>>

vars == <<fnArg, fnOrigin, fnRet, fnRet2, db, workers, pool, queries, pc,
          req, files, ingestLogs, last, exported, opened>>

----------------------------------------------------------------------------
(* Query builder and lookup *)

\* .limit(10)
FIND_LIMIT == 10

CIEqual(a, b) == Lower(a) = Lower(b)

ContainsCI(name, lit) ==
    \E i \in 0..(Len(name) - Len(lit)) :
        CIEqual(SubSeq(name, i + 1, i + Len(lit)), lit)

\* {"$regex": "^" + re.escape(s) + "$", "$options": "i"}: re.escape makes
\* every character of s a literal, so the filter is its literal and anchors
anchored_ci_exact(s) == [anchored |-> TRUE, literal |-> Strip(s, WhiteSpace)]

\* {"$regex": re.escape(target_name), "$options": "i"}
contains_ci(s) == [anchored |-> FALSE, literal |-> s]

\* How the database evaluates a filter on a stored name.  Without the
\* multiline option "$" matches at the very end of the subject and also
\* just before a newline that is its last character.
RegexMatches(filter, name) ==
    IF filter.anchored
    THEN \/ CIEqual(name, filter.literal)
         \/ CIEqual(name, filter.literal \o <<"\n">>)
    ELSE ContainsCI(name, filter.literal)

\* companies.find({"name": filter}, projection).limit(10)
Find(filter) ==
    LET Hit(d) == RegexMatches(filter, d.name)
    IN  Take(SelectSeq(db, Hit), FIND_LIMIT)

\* lines 90-95: the exact stage, and the substring stage when it is empty
Lookup(target_name) ==
    LET docs == Find(anchored_ci_exact(target_name))
    IN  IF docs # <<>>
        THEN [docs |-> docs, finds |-> 1]
        ELSE [docs |-> Find(contains_ci(target_name)), finds |-> 2]

----------------------------------------------------------------------------
(* Export writer *)

JsonSuffix == <<".", "j", "s", "o", "n">>

ExportFileNameNoId(target_name, file_id) ==
    safe_filename(target_name) \o JsonSuffix

\* f"{safe_filename(target_name)}_{file_id}.json"
ExportFileName(target_name, file_id) ==
    safe_filename(target_name) \o <<"_">> \o file_id \o JsonSuffix

\* json.dump raises TypeError on a value that is not JSON-native, which a
\* bson ObjectId "_id" is
Serializable(docs) == \A i \in 1..Len(docs) : ~docs[i].oid

JsonItem(d) == [id |-> d.id, name |-> d.name]

\* the file right after open(file_path, "w")
EmptyFile == [items |-> <<>>, closed |-> FALSE]

\* json.dump(docs, f, ensure_ascii=False, indent=2): the text as the
\* objects it holds, closed once the final "]" is written
JsonDump(docs) ==
    [items |-> [i \in 1..Len(docs) |-> JsonItem(docs[i])], closed |-> TRUE]

\* what json.dump has written when it raises: the objects before the first
\* one it cannot encode
JsonDumpPartial(docs) ==
    LET k == CHOOSE i \in 1..Len(docs) :
                 docs[i].oid /\ \A j \in 1..(i - 1) : ~docs[j].oid
    IN  [items |-> [i \in 1..(k - 1) |-> JsonItem(docs[i])], closed |-> FALSE]

UrlPrefix == <<"/", "d", "o", "w", "n", "l", "o", "a", "d", "/">>

DownloadUrlNoName(filename) == UrlPrefix

\* request.url_for("download_file", filename=filename)
DownloadUrl(filename) == UrlPrefix \o filename

\* the {filename} path parameter of a link
FilenameOfUrl(url) == SubSeq(url, Len(UrlPrefix) + 1, Len(url))

----------------------------------------------------------------------------
(* Responses *)

NoBody == [items |-> <<>>, closed |-> FALSE]

Response(route, status) ==
    [route |-> route, status |-> status, detail |-> <<>>, link |-> <<>>,
     data |-> <<>>, hasBody |-> FALSE, body |-> NoBody, export |-> NoVal,
     c |-> NoVal, filename |-> <<>>, finds |-> 0, count |-> 0]

NoResponse == Response("none", 0)

\* "Missing query param 'export' (or 'c')."
MissingDetail ==
    <<"M", "i", "s", "s", "i", "n", "g", " ", "q", "u", "e", "r", "y", " ",
      "p", "a", "r", "a", "m", " ", "'", "e", "x", "p", "o", "r", "t", "'",
      " ", "(", "o", "r", " ", "'", "c", "'", ")", ".">>

NotFoundPrefix ==
    <<"N", "o", " ", "c", "o", "m", "p", "a", "n", "y", " ", "f", "o", "u",
      "n", "d", " ", "f", "o", "r", " ", "'">>

NotFoundDetailBare(value, target_name) == NotFoundPrefix \o <<"'">>

\* f"No company found for '{target_name}'"
NotFoundDetail(value, target_name) ==
    NotFoundPrefix \o target_name \o <<"'">>

FileNotFoundDetail ==
    <<"F", "i", "l", "e", " ", "n", "o", "t", " ", "f", "o", "u", "n", "d">>

\* Python truthiness of an Optional[str]
Falsy(v) == v = NoVal \/ v = <<>>

\* export or c
Or(export, c) == IF Falsy(export) THEN c ELSE export

NoReq ==
    [export |-> NoVal, c |-> NoVal, target |-> <<>>, docs |-> <<>>,
     finds |-> 0, filename |-> <<>>, wrote |-> NoBody]
----------------------------------------------------------------------------
(* GET / : export_at_root *)

\* lines 81-82, had the validation come after the first query
Reject400Late(export, c) ==
    /\ last' = [Response("export", 400) EXCEPT
                    !.detail = MissingDetail, !.export = export, !.c = c,
                    !.finds = 1]
    /\ UNCHANGED <<pc, req, pool, files, exported, opened>>

\* lines 81-82: raise HTTPException(status_code=400, ...)
Reject400(export, c) ==
    /\ last' = [Response("export", 400) EXCEPT
                    !.detail = MissingDetail, !.export = export, !.c = c]
    /\ UNCHANGED <<pc, req, pool, files, exported, opened>>

\* lines 80-101: validation, alias resolution, both query stages, the file
\* name.  Nothing shared is written before open(), so these lines are one step.
ExportStart(w, export, c) ==
    /\ pc[w] = "idle"
    /\ LET value == Or(export, c)
       IN  IF Falsy(value)
           THEN Reject400(export, c)
           ELSE LET target_name == resolve_target(value)
                    found == Lookup(target_name)
                IN  IF found.docs = <<>>
                    THEN /\ last' = [Response("export", 404) EXCEPT
                                 !.detail = NotFoundDetail(value, target_name),
                                 !.export = export, !.c = c,
                                 !.finds = found.finds]
                         /\ UNCHANGED <<pc, req, pool, files, exported, opened>>
                    ELSE \E file_id \in pool :
                         /\ pool' = pool \ {file_id}
                         /\ req' = [req EXCEPT ![w] =
                                [export |-> export,
                                 c |-> c,
                                 target |-> target_name,
                                 docs |-> found.docs,
                                 finds |-> found.finds,
                                 filename |-> ExportFileName(target_name, file_id),
                                 wrote |-> NoBody]]
                         /\ pc' = [pc EXCEPT ![w] = "open"]
                         /\ UNCHANGED <<last, files, exported, opened>>
    /\ UNCHANGED <<db, workers, queries, ingestLogs, pureVars>>

\* line 102: open(file_path, "w", encoding="utf-8") creates or truncates
ExportOpen(w) ==
    /\ pc[w] = "open"
    /\ files' = (req[w].filename :> EmptyFile) @@ files
    /\ opened' = opened \cup {req[w].filename}
    /\ pc' = [pc EXCEPT ![w] = "dump"]
    /\ UNCHANGED <<db, workers, pool, queries, req, ingestLogs, last,
                   exported, pureVars>>

\* line 103 and the end of the with block: the text is written and the file
\* closed; a TypeError from json.dump leaves what was written and ends the
\* request with a server error
ExportDump(w) ==
    /\ pc[w] = "dump"
    /\ IF Serializable(req[w].docs)
       THEN /\ files' = [files EXCEPT ![req[w].filename] = JsonDump(req[w].docs)]
            /\ req' = [req EXCEPT ![w].wrote = JsonDump(req[w].docs)]
            /\ pc' = [pc EXCEPT ![w] = "reply"]
            /\ UNCHANGED last
       ELSE /\ files' = [files EXCEPT ![req[w].filename] =
                             JsonDumpPartial(req[w].docs)]
            /\ req' = [req EXCEPT ![w] = NoReq]
            /\ pc' = [pc EXCEPT ![w] = "idle"]
            /\ last' = [Response("export", 500) EXCEPT
                            !.export = req[w].export,
                            !.c = req[w].c,
                            !.filename = req[w].filename,
                            !.finds = req[w].finds]
    /\ UNCHANGED <<db, workers, pool, queries, ingestLogs, exported, opened,
                   pureVars>>

\* lines 105-122: the response for the mode.  mode is a parameter of the
\* request that only these lines read.
ExportReply(w, mode) ==
    /\ pc[w] = "reply"
    /\ LET download_url == DownloadUrl(req[w].filename)
           base == [Response("export", 200) EXCEPT
                        !.link = download_url,
                        !.export = req[w].export,
                        !.c = req[w].c,
                        !.filename = req[w].filename,
                        !.finds = req[w].finds]
       IN  /\ last' =
                IF mode = "json"
                THEN [base EXCEPT !.data = req[w].docs]
                ELSE IF mode = "link"
                THEN base
                ELSE [base EXCEPT !.hasBody = TRUE,
                                  !.body = files[req[w].filename]]
           /\ exported' = exported \cup
                {[link |-> download_url, json |-> req[w].wrote,
                  target |-> req[w].target]}
    /\ req' = [req EXCEPT ![w] = NoReq]
    /\ pc' = [pc EXCEPT ![w] = "idle"]
    /\ UNCHANGED <<db, workers, pool, queries, files, ingestLogs, opened,
                   pureVars>>

----------------------------------------------------------------------------
(* GET /download/{filename} : download_file *)

\* entries of EXPORT_DIR that are directories
DirEntries == {<<".">>, <<".", ".">>}

\* file_path.exists(), file_path being EXPORT_DIR / filename
PathExists(filename) == filename \in DOMAIN files \/ filename \in DirEntries

\* lines 126-129; FileResponse sends a regular file and fails on any other
\* kind of path
DownloadResponse(filename) ==
    IF ~PathExists(filename)
    THEN [Response("download", 404) EXCEPT
              !.detail = FileNotFoundDetail, !.filename = filename]
    ELSE IF filename \in DOMAIN files
    THEN [Response("download", 200) EXCEPT
              !.hasBody = TRUE, !.body = files[filename],
              !.filename = filename]
    ELSE [Response("download", 500) EXCEPT !.filename = filename]

download_file(filename) ==
    /\ last' = DownloadResponse(filename)
    /\ UNCHANGED <<db, workers, pool, queries, pc, req, files, ingestLogs,
                   exported, opened, pureVars>>

----------------------------------------------------------------------------
(* GET /health and POST /ingest *)

health ==
    /\ last' = [Response("health", 200) EXCEPT !.count = Len(db)]
    /\ UNCHANGED <<db, workers, pool, queries, pc, req, files, ingestLogs,
                   exported, opened, pureVars>>

MaxIngest == 1

Payloads == {"p"}

ingest(payload) ==
    /\ Len(ingestLogs) < MaxIngest
    /\ ingestLogs' = Append(ingestLogs, [payload |-> payload])
    /\ last' = [Response("ingest", 200) EXCEPT !.count = Len(ingestLogs) + 1]
    /\ UNCHANGED <<db, workers, pool, queries, pc, req, files, exported,
                   opened, pureVars>>
----------------------------------------------------------------------------
(* Inputs *)

Rep(ch, n) == [i \in 1..n |-> ch]

RECURSIVE Strings(_, _)
Strings(chars, n) ==
    IF n = 0 THEN {<<>>}
    ELSE LET shorter == Strings(chars, n - 1)
         IN  shorter \cup {<<ch>> \o s : ch \in chars, s \in shorter}

Acme == <<"A", "c", "m", "e">>

AcmeNewline == <<"A", "c", "m", "e", "\n">>

AcmeCorp == <<"A", "c", "m", "e", " ", "C", "o", "r", "p">>

StoredNames == {Acme, AcmeNewline, AcmeCorp}

\* the longest collection drawn in full; longer ones repeat one name
MaxDocs == 2

\* a collection of the given names; the documents at the positions in oids
\* carry a bson ObjectId as "_id", the others a JSON-native value
MkDb(names, oids) ==
    [i \in 1..Len(names) |-> [id |-> i, oid |-> i \in oids, name |-> names[i]]]

NameSeqs ==
    Strings(StoredNames, MaxDocs)
        \cup {Rep(n, FIND_LIMIT + 1) : n \in {Acme, AcmeCorp}}

Collections == {MkDb(ns, {}) : ns \in NameSeqs}

\* two companies with a JSON-native "_id" and one with an ObjectId
MixedCollection == MkDb(<<Airbus, AcmeCorp, Acme>>, {2})

QueryAlias == <<"a">>
QueryPaddedAlias == <<" ", "B", "\t">>
QueryPadded == <<" ", "a", "c", "m", "e", " ">>
QueryBlank == <<" ">>
QueryUnknown == <<"z", "z">>

LookupQueries ==
    {QueryPaddedAlias, Acme, QueryPadded, QueryBlank, QueryUnknown}

\* requests that give no name: export and c absent or empty
MissingPairs ==
    {<<NoVal, NoVal>>, <<<<>>, NoVal>>, <<NoVal, <<>>>>, <<<<>>, <<>>>>}

\* each query given as export and as c
ParamPairs(qs) ==
    MissingPairs \cup {<<q, NoVal>> : q \in qs} \cup {<<NoVal, q>> : q \in qs}

FilePairs ==
    {<<NoVal, NoVal>>, <<QueryAlias, NoVal>>, <<NoVal, Acme>>,
     <<AcmeCorp, NoVal>>, <<QueryUnknown, NoVal>>}

Modes == {"file", "json", "link", "raw"}

HexDigits == <<"0", "1", "2", "3", "4", "5", "6", "7", "8", "9">>

\* str(uuid.uuid4()), shortened to one digit; all have the same length
Uuids(n) == {<<HexDigits[i]>> : i \in 1..n}

\* exports that reach the file name (each takes a fresh identifier)
MaxExports == 2

NeverWritten == ExportFileName(Acme, <<"f">>)

ProbeNames == DirEntries \cup {NeverWritten}

DownloadNames ==
    DOMAIN files \cup {FilenameOfUrl(e.link) : e \in exported} \cup ProbeNames

----------------------------------------------------------------------------
(* Specifications *)

PureIdle ==
    /\ fnArg = NoVal
    /\ fnOrigin = NoVal
    /\ fnRet = NoVal
    /\ fnRet2 = NoVal

\* the state after the module is imported: EXPORT_DIR exists and is empty
InitService(ws, ids, qs, dbs) ==
    /\ db \in dbs
    /\ workers = ws
    /\ pool = ids
    /\ queries = qs
    /\ pc = [w \in ws |-> "idle"]
    /\ req = [w \in ws |-> NoReq]
    /\ files = <<>>
    /\ ingestLogs = <<>>
    /\ last = NoResponse
    /\ exported = {}
    /\ opened = {}
    /\ PureIdle

\* two handler threads, a collection with both kinds of "_id"
Init ==
    InitService({"w1", "w2"}, Uuids(MaxExports), FilePairs, {MixedCollection})

\* one handler thread, every collection of the stored names
InitLookup ==
    InitService({"w1"}, Uuids(1), ParamPairs(LookupQueries), Collections)

Next ==
    \/ \E w \in workers : \E p \in queries : ExportStart(w, p[1], p[2])
    \/ \E w \in workers : ExportOpen(w)
    \/ \E w \in workers : ExportDump(w)
    \/ \E w \in workers : \E mode \in Modes : ExportReply(w, mode)
    \/ \E filename \in DownloadNames : download_file(filename)
    \/ health
    \/ \E payload \in Payloads : ingest(payload)

Spec == Init /\ [][Next]_vars

SpecLookup == InitLookup /\ [][Next]_vars

ServiceIdle ==
    /\ db = <<>>
    /\ workers = {}
    /\ pool = {}
    /\ queries = {}
    /\ pc = <<>>
    /\ req = <<>>
    /\ files = <<>>
    /\ ingestLogs = <<>>
    /\ last = NoResponse
    /\ exported = {}
    /\ opened = {}

(* resolve_target on its own *)

RECURSIVE CaseVariants(_)
CaseVariants(k) ==
    IF k = <<>> THEN {<<>>}
    ELSE {<<ch>> \o rest :
              ch \in {Head(k), UpperChar(Head(k))},
              rest \in CaseVariants(Tail(k))}

\* leading and trailing whitespace added to an alias
MaxPad == 1

PadChars == {" ", "\n"}

\* other inputs: every string of up to MaxLen of these characters
MaxLen == 3

ResolveChars == {"c", "C", "x", " ", "\t"}

InitResolve ==
    /\ \/ \E k \in Keys : \E v \in CaseVariants(k) :
          \E lead \in Strings(PadChars, MaxPad) :
          \E trail \in Strings(PadChars, MaxPad) :
              /\ fnArg = lead \o v \o trail
              /\ fnOrigin = k
       \/ /\ fnArg \in Strings(ResolveChars, MaxLen) \cup CanonicalNames
          /\ fnOrigin = NoVal
    /\ fnRet = NoVal
    /\ fnRet2 = NoVal
    /\ ServiceIdle

Resolve ==
    /\ fnRet = NoVal
    /\ fnRet' = resolve_target(fnArg)
    /\ UNCHANGED <<fnArg, fnOrigin, fnRet2, svcVars>>

ResolveAgain ==
    /\ fnRet # NoVal
    /\ fnRet2 = NoVal
    /\ fnRet2' = resolve_target(fnRet)
    /\ UNCHANGED <<fnArg, fnOrigin, fnRet, svcVars>>

NextResolve == Resolve \/ ResolveAgain

SpecResolve == InitResolve /\ [][NextResolve]_vars

(* safe_filename on its own *)

\* inputs: a run of one character between two short affixes
MaxAffix == 2

AffixChars == {"a", "_", " ", "é"}

RunChars == {"a", "Z", "7", "-", "_", ".", " ", "(", "é"}

RunLens == {0, MaxNameLen - 1, MaxNameLen, MaxNameLen + 1}

InitFilename ==
    /\ \E pre \in Strings(AffixChars, MaxAffix) :
       \E post \in Strings(AffixChars, MaxAffix) :
       \E ch \in RunChars : \E n \in RunLens :
           fnArg = pre \o Rep(ch, n) \o post
    /\ fnOrigin = NoVal
    /\ fnRet = NoVal
    /\ fnRet2 = NoVal
    /\ ServiceIdle

Sanitize ==
    /\ fnRet = NoVal
    /\ fnRet' = safe_filename(fnArg)
    /\ UNCHANGED <<fnArg, fnOrigin, fnRet2, svcVars>>

NextFilename == Sanitize

SpecFilename == InitFilename /\ [][NextFilename]_vars

----------------------------------------------------------------------------
(* Properties *)

\* needle occurs in hay, case-sensitively
Contains(hay, needle) ==
    \E i \in 0..(Len(hay) - Len(needle)) :
        SubSeq(hay, i + 1, i + Len(needle)) = needle

AllWhite(s) == \A i \in 1..Len(s) : s[i] \in WhiteSpace

\* r is s without its leading and trailing whitespace, nothing else changed
IsTrimOf(r, s) ==
    /\ \E a \in 0..Len(s) : \E b \in a..Len(s) :
          /\ r = SubSeq(s, a + 1, b)
          /\ AllWhite(SubSeq(s, 1, a))
          /\ AllWhite(SubSeq(s, b + 1, Len(s)))
    /\ r # <<>> => r[1] \notin WhiteSpace /\ r[Len(r)] \notin WhiteSpace

\* C1: an alias in any letter case, with whitespace around it, resolves to
\* its canonical name; resolving that result again gives the same name, and
\* a canonical name given directly resolves to itself.
C1_AliasResolves ==
    /\ (fnOrigin # NoVal /\ fnRet # NoVal) => fnRet = SHORTCUTS[fnOrigin]
    /\ (fnOrigin # NoVal /\ fnRet2 # NoVal) => fnRet2 = SHORTCUTS[fnOrigin]
    /\ (fnArg \in CanonicalNames /\ fnRet # NoVal) => fnRet = fnArg

C1_Witness ==
    /\ fnOrigin = <<"c", "o", "n", "t", "i">>
    /\ fnArg = <<" ", "C", "o", "N", "t", "I", "\n">>
    /\ fnRet = Continental
    /\ fnRet2 = Continental

\* C2: an input whose trimmed, lowercased form is no alias resolves to
\* itself with only the surrounding whitespace removed.
C2_NonAliasIsTrim ==
    (fnRet # NoVal /\ Lower(Strip(fnArg, WhiteSpace)) \notin Keys)
        => IsTrimOf(fnRet, fnArg)

C2_Witness ==
    /\ fnArg = <<" ", "C", "x">>
    /\ fnRet = <<"C", "x">>

\* C3: when some stored name equals the target ignoring case, every document
\* returned is such an exact match, and the substring query runs only when
\* the exact query returned nothing.
C3_ExactBeforeSubstring ==
    \A w \in workers :
        pc[w] # "idle" =>
            LET target == req[w].target
                docs == req[w].docs
                HasExact == \E i \in 1..Len(db) : CIEqual(db[i].name, target)
            IN  /\ HasExact =>
                      \A j \in 1..Len(docs) : CIEqual(docs[j].name, target)
                /\ req[w].finds = 2 => ~HasExact

\* C4: the link of every export answered 200 names a file that holds the
\* JSON that export wrote, a download of it is answered 200 with that
\* content, and this stays so whatever is requested afterwards.
C4_RoundTrip ==
    \A e \in exported :
        LET filename == FilenameOfUrl(e.link)
        IN  /\ e.json.closed
            /\ filename \in DOMAIN files
            /\ files[filename] = e.json
            /\ (last.route = "download" /\ last.filename = filename)
                   => (last.status = 200 /\ last.hasBody /\ last.body = e.json)

C4_Witness ==
    /\ Cardinality(exported) = 2
    /\ ingestLogs # <<>>
    /\ last.route = "download"
    /\ last.status = 200
    /\ \E e \in exported :
          /\ last.filename = FilenameOfUrl(e.link)
          /\ last.body = e.json
          /\ e.json.items # <<>>

\* C5: an export creates one file under a name no file has yet, whatever the
\* mode, and no step changes or removes a file other than an export
\* completing the file it created itself.
C5_FreshFile ==
    [][/\ \A f \in DOMAIN files :
              /\ f \in DOMAIN files'
              /\ files'[f] # files[f] =>
                     \E w \in workers :
                         /\ pc[w] = "dump" /\ pc'[w] # "dump"
                         /\ req[w].filename = f
                         /\ files[f] = EmptyFile
       /\ \A w \in workers :
              (pc[w] = "open" /\ pc'[w] = "dump") =>
                  /\ req[w].filename \notin DOMAIN files
                  /\ DOMAIN files' = DOMAIN files \cup {req[w].filename}
       /\ (\A w \in workers : ~(pc[w] = "open" /\ pc'[w] = "dump")) =>
              DOMAIN files' = DOMAIN files
       /\ \A w \in workers :
              (pc[w] = "reply" /\ pc'[w] = "idle") =>
                  /\ last'.status = 200
                  /\ req[w].filename \in DOMAIN files
                  /\ \A v \in workers \ {w} :
                         pc[v] # "idle" => req[v].filename # req[w].filename
      ]_vars

C5_Witness ==
    /\ Cardinality(DOMAIN files) = 2
    /\ \E e1 \in exported : \E e2 \in exported :
          /\ e1.target = e2.target
          /\ e1.link # e2.link
          /\ files[FilenameOfUrl(e1.link)] = e1.json
          /\ files[FilenameOfUrl(e2.link)] = e2.json

\* the name the lookup ran on: the query trimmed and, when that is an alias
\* in any letter case, replaced by its canonical name
ResolvedName(value) ==
    LET t == Strip(value, WhiteSpace)
    IN  IF Lower(t) \in Keys THEN SHORTCUTS[Lower(t)] ELSE t

NotFoundStep ==
    /\ last' # last
    /\ last'.route = "export"
    /\ last'.status = 404

\* C6 as claimed: a lookup that finds nothing in both stages is answered 404
\* with a detail that contains the query string as submitted, and writes no
\* file.
C6_DetailHasQuery ==
    [][NotFoundStep =>
           /\ Contains(last'.detail, Or(last'.export, last'.c))
           /\ files' = files
           /\ opened' = opened
      ]_vars

\* C6 as amended: a lookup that finds nothing in both stages is answered 404
\* with a detail that contains the resolved target name, and writes no file.
C6_DetailHasTarget ==
    [][NotFoundStep =>
           /\ Contains(last'.detail, ResolvedName(Or(last'.export, last'.c)))
           /\ last'.finds = 2
           /\ files' = files
           /\ opened' = opened
      ]_vars

C6_Witness ==
    /\ last.route = "export"
    /\ last.status = 404
    /\ last.export = QueryPaddedAlias
    /\ Contains(last.detail, Boeing)
    /\ ~Contains(last.detail, QueryPaddedAlias)
    /\ files = <<>>

DownloadStep ==
    /\ last' # last
    /\ last'.route = "download"

\* C7: a download of a name no export has written is answered 404, the file
\* is returned exactly when a file of that name exists, and the export
\* directory is left as it was.
C7_DownloadNotFound ==
    [][DownloadStep =>
           /\ last'.filename \notin opened => last'.status = 404
           /\ last'.status = 200 <=> last'.filename \in DOMAIN files
           /\ last'.status = 200 => last'.body = files[last'.filename]
           /\ files' = files
      ]_vars

\* C8: a request with neither export nor c (absent or empty) is answered 400
\* without a database query and without touching the export directory.
C8_MissingParam ==
    [][(/\ last' # last
        /\ last'.route = "export"
        /\ last'.export \in {NoVal, <<>>}
        /\ last'.c \in {NoVal, <<>>})
           => /\ last'.status = 400
              /\ last'.finds = 0
              /\ files' = files
              /\ opened' = opened
              /\ pool' = pool
      ]_vars

C8_Witness ==
    /\ last.route = "export"
    /\ last.status = 400
    /\ last.export = <<>>
    /\ last.c = NoVal
    /\ last.finds = 0
    /\ DOMAIN files # {}

\* the characters of [A-Za-z0-9._-]
TokenChars ==
    {"A", "B", "C", "D", "E", "F", "G", "H", "I", "J", "K", "L", "M", "N",
     "O", "P", "Q", "R", "S", "T", "U", "V", "W", "X", "Y", "Z",
     "a", "b", "c", "d", "e", "f", "g", "h", "i", "j", "k", "l", "m", "n",
     "o", "p", "q", "r", "s", "t", "u", "v", "w", "x", "y", "z",
     "0", "1", "2", "3", "4", "5", "6", "7", "8", "9", ".", "_", "-"}

\* C9: the token has only characters of [A-Za-z0-9._-] and is at most 80
\* characters long.
C9_SafeToken ==
    fnRet # NoVal =>
        /\ Len(fnRet) <= 80
        /\ \A i \in 1..Len(fnRet) : fnRet[i] \in TokenChars

C9_Witness ==
    /\ fnRet # NoVal
    /\ Len(fnArg) > 80
    /\ Len(fnRet) = 80
    /\ \E i \in 1..Len(fnArg) : fnArg[i] \notin TokenChars
    /\ \E i \in 1..Len(fnRet) : fnRet[i] = "_"

\* C10: the token neither begins nor ends with "_", for inputs longer than
\* 80 characters too.
C10_NoEdgeSeparator ==
    (fnRet # NoVal /\ fnRet # <<>>) =>
        /\ fnRet[1] # "_"
        /\ fnRet[Len(fnRet)] # "_"

====
